---- MODULE Spec2Model ----
(***************************************************************************)
(* Model of the AR object renderer: the perspective solver                 *)
(* compute_object_size_px, the compositor paste_object (ar_render.py) and  *)
(* the rendering loop of main (main.py).                                   *)
(*                                                                         *)
(* Python floats are modelled as exact rationals <<n, d>> (d > 0, lowest   *)
(* terms), so every arithmetic step of the source is carried out as        *)
(* written, without rounding error.  Arrays are buffers on a heap; an      *)
(* image is a record [h, w, base, over, swap]: its pixel at (r, c) is      *)
(* over[<<r, c>>] where that is defined and the procedural content         *)
(* Pattern(base, r, c) elsewhere, with channels 1 and 3 exchanged when     *)
(* swap is set.  Rows and columns are numbered from 0 as in numpy.         *)
(***************************************************************************)
EXTENDS Integers, Sequences, FiniteSets, TLC

VARIABLES camera, height, positions, heap, i, pc, loc, rendered, files, log, error

vars == <<camera, height, positions, heap, i, pc, loc, rendered, files, log, error>>

None == "None"

(***************************************************************************)
(* Bounds of the model.                                                    *)
(***************************************************************************)
MaxPositions == 2
SmallH == 8
SmallW == 6

(***************************************************************************)
(* Exact rational arithmetic standing for Python float arithmetic.         *)
(***************************************************************************)
Abs(n) == IF n < 0 THEN -n ELSE n

RECURSIVE GCD(_, _)
GCD(a, b) == IF b = 0 THEN a ELSE GCD(b, a % b)

Rat(n, d) ==
    LET g == GCD(Abs(n), Abs(d))
        s == IF d < 0 THEN -1 ELSE 1
    IN  <<(s * n) \div g, (s * d) \div g>>

FromInt(n) == <<n, 1>>
RAdd(a, b) == Rat(a[1] * b[2] + b[1] * a[2], a[2] * b[2])
RSub(a, b) == Rat(a[1] * b[2] - b[1] * a[2], a[2] * b[2])
RMul(a, b) == Rat(a[1] * b[1], a[2] * b[2])
RDiv(a, b) == Rat(a[1] * b[2], a[2] * b[1])
RGt(a, b) == a[1] * b[2] > b[1] * a[2]
IsZero(a) == a[1] = 0

\* int(x) of a float: truncation toward zero.
PyInt(a) == IF a[1] >= 0 THEN a[1] \div a[2] ELSE -((-a[1]) \div a[2])

(***************************************************************************)
(* CameraParams (all fields in millimetres).                               *)
(***************************************************************************)
CameraParams(f, sw, sh, ch, gd) ==
    [focal_length_mm |-> f, sensor_width_mm |-> sw, sensor_height_mm |-> sh,
     camera_height_mm |-> ch, ground_distance_mm |-> gd]

\* The camera main constructs.
MainCamera == CameraParams(15, 36, 24, 1600, 2000)

(***************************************************************************)
(* compute_object_size_px, step by step.                                   *)
(***************************************************************************)
HalfSensor(cam) == Rat(cam.sensor_height_mm, 2)

PixelPerMm(cam, bg_height_px) == Rat(bg_height_px, cam.sensor_height_mm)

\* Mutant: the row measured from the top of the image, without the flip.
SensorY_FromTop(bg_height_px, y_px, pixel_per_mm) ==
    RDiv(FromInt(y_px), pixel_per_mm)

SensorY(bg_height_px, y_px, pixel_per_mm) ==
    RDiv(FromInt(bg_height_px - y_px), pixel_per_mm)

\* Mutant: the comparison of the horizon test reversed.
AboveHorizon_Reversed(cam, x_y_mm) == RGt(HalfSensor(cam), x_y_mm)

\* Mutant: the horizon taken at the full sensor height instead of half of it.
AboveHorizon_FullSensor(cam, x_y_mm) == RGt(x_y_mm, FromInt(cam.sensor_height_mm))

AboveHorizon(cam, x_y_mm) == RGt(x_y_mm, HalfSensor(cam))

\* Divisor of the ground-range term; the division raises when it is zero.
RangeDivisor(cam, x_y_mm) == RSub(HalfSensor(cam), x_y_mm)

GroundRange(cam, x_y_mm) ==
    RSub(RDiv(FromInt(cam.focal_length_mm * cam.camera_height_mm),
              RangeDivisor(cam, x_y_mm)),
         FromInt(cam.ground_distance_mm))

\* Divisor of the projection term; the division raises when it is zero.
ProjDivisor(cam, x_r_mm) == RAdd(FromInt(cam.ground_distance_mm), x_r_mm)

ProjHeight(cam, x_y_mm, x_r_mm, H_mm) ==
    RSub(RSub(HalfSensor(cam), x_y_mm),
         RDiv(RMul(FromInt(cam.focal_length_mm),
                   RSub(FromInt(cam.camera_height_mm), H_mm)),
              ProjDivisor(cam, x_r_mm)))

ToPixels(h_mm, pixel_per_mm) == PyInt(RMul(h_mm, pixel_per_mm))

Returned(v) == [raised |-> None, value |-> v]
Raised(e) == [raised |-> e, value |-> 0]

compute_object_size_px(cam, bg_height_px, y_px, object_height_m) ==
    LET H_mm == RMul(object_height_m, FromInt(1000))
        pixel_per_mm == PixelPerMm(cam, bg_height_px)
        x_y_mm == SensorY(bg_height_px, y_px, pixel_per_mm)
    IN  IF AboveHorizon(cam, x_y_mm) THEN Returned(0)
        ELSE IF IsZero(RangeDivisor(cam, x_y_mm)) THEN Raised("ZeroDivisionError")
        ELSE LET x_r_mm == GroundRange(cam, x_y_mm)
             IN  IF IsZero(ProjDivisor(cam, x_r_mm)) THEN Raised("ZeroDivisionError")
                 ELSE Returned(ToPixels(ProjHeight(cam, x_y_mm, x_r_mm, H_mm),
                                        pixel_per_mm))

(***************************************************************************)
(* Images.  A colour pixel is <<b, g, r>> with channels in 0..255; a pixel  *)
(* of an alpha mask is the byte a of the PNG, standing for the float       *)
(* a / 255 that load_rgba stores.                                          *)
(***************************************************************************)
Pattern(base, r, c) ==
    CASE base = "background" -> <<(r + 2 * c) % 256, (2 * r + c) % 256, (r + c) % 256>>
      [] base = "object" -> <<(3 * r + c + 1) % 256, (r + 3 * c + 2) % 256, (r + c + 3) % 256>>
      [] base = "alpha" -> (CASE (r + c) % 3 = 0 -> 255
                              [] (r + c) % 3 = 1 -> 128
                              [] OTHER -> 0)

Image(h, w, base) == [h |-> h, w |-> w, base |-> base, over |-> <<>>, swap |-> FALSE]

Coords(top, bottom, left, right) == ((top)..(bottom - 1)) \X ((left)..(right - 1))

SwapChannels(px) == <<px[3], px[2], px[1]>>

Pixel(img, r, c) ==
    LET raw == IF <<r, c>> \in DOMAIN img.over THEN img.over[<<r, c>>]
               ELSE Pattern(img.base, r, c)
    IN  IF img.swap THEN SwapChannels(raw) ELSE raw

\* cv2.cvtColor(img, cv2.COLOR_BGR2RGB): a new image with channels 1 and 3 exchanged.
CvtColor(img) == [img EXCEPT !.swap = ~@]

\* cv2.resize(src, (w, h)) rejects an empty destination size with cv2.error.
ResizeFails(w, h) == w <= 0 \/ h <= 0

\* cv2.resize(src, (w, h)): a new h-by-w array.  The interpolation kernel is
\* represented by sampling the source at the scaled coordinate.
Resize(src, w, h) ==
    [h |-> h, w |-> w, base |-> None, swap |-> FALSE,
     over |-> [p \in Coords(0, h, 0, w) |->
                  Pixel(src, (p[1] * src.h) \div h, (p[2] * src.w) \div w)]]

\* One channel of resized_bgr * alpha + roi * (1 - alpha), converted to uint8.
BlendChannel(obj, roi, a) == (obj * a + roi * (255 - a)) \div 255

BlendPixel(obj, roi, a) == [ch \in 1..3 |-> BlendChannel(obj[ch], roi[ch], a)]

\* result[top:bottom, left:right] = blended, for a slice inside the array.
WriteRect(img, top, bottom, left, right, resized_bgr, resized_alpha) ==
    LET rect == Coords(top, bottom, left, right)
    IN  [img EXCEPT !.over =
            [p \in (DOMAIN img.over) \cup rect |->
                IF p \in rect
                THEN BlendPixel(Pixel(resized_bgr, p[1] - top, p[2] - left),
                                Pixel(img, p[1], p[2]),
                                Pixel(resized_alpha, p[1] - top, p[2] - left))
                ELSE img.over[p]]]

(***************************************************************************)
(* paste_object: width, destination rectangle and bounds check.            *)
(***************************************************************************)
Aspect(orig_w, orig_h) == Rat(orig_w, orig_h)

\* Mutant: the width rounded to nearest instead of truncated.
TargetWidth_Rounded(orig_w, orig_h, target_h) ==
    PyInt(RAdd(RMul(Aspect(orig_w, orig_h), FromInt(target_h)), Rat(1, 2)))

TargetWidth(orig_w, orig_h, target_h) ==
    PyInt(RMul(Aspect(orig_w, orig_h), FromInt(target_h)))

Top(y_px, target_h) == y_px - target_h

Bottom(y_px) == y_px

\* Mutant: the subtraction done before the halving.
Left_HalvedAfter(x_px, target_w) == (x_px - target_w) \div 2

Left(x_px, target_w) == x_px - (target_w \div 2)

Right(left, target_w) == left + target_w

OutOfBounds(top, bottom, left, right, bg_h, bg_w) ==
    top < 0 \/ bottom > bg_h \/ left < 0 \/ right > bg_w

(***************************************************************************)
(* Inputs: the scene of main's defaults and small scenes.                  *)
(***************************************************************************)
Cameras == {MainCamera, CameraParams(15, 36, 24, 1600, 5000), CameraParams(35, 36, 24, 1200, 0)}

MainScenario ==
    [camera |-> MainCamera, height |-> Rat(2, 5),
     bg |-> [h |-> 3000, w |-> 4000], obj |-> [h |-> 400, w |-> 200],
     anchors |-> {<<1300, 1300>>, <<1800, 2000>>, <<1500, 1300>>}]

SmallAnchors ==
    {<<y, SmallW \div 2>> : y \in 0..SmallH}
        \cup {<<y, x>> : y \in {0, SmallH}, x \in {0, SmallW}}

SmallObjects == {[h |-> 2, w |-> 2], [h |-> 4, w |-> 1], [h |-> 2, w |-> 3]}

SmallHeights == {Rat(4, 5), Rat(16, 5)}

SmallScenarios ==
    {[camera |-> cam, height |-> H, bg |-> [h |-> SmallH, w |-> SmallW],
      obj |-> o, anchors |-> SmallAnchors] :
        cam \in Cameras, H \in SmallHeights, o \in SmallObjects}

Scenarios == {MainScenario} \cup SmallScenarios

PositionLists(anchors) == UNION {[1..n -> anchors] : n \in 1..MaxPositions}

(***************************************************************************)
(* State.                                                                  *)
(***************************************************************************)
\* The locals of paste_object; bound holds the names assigned so far.
NoLocals ==
    [y_px |-> 0, x_px |-> 0, target_h |-> 0, target_w |-> 0,
     top |-> 0, bottom |-> 0, left |-> 0, right |-> 0,
     result |-> None, bound |-> {}]

Init ==
    \E sc \in Scenarios :
        /\ camera = sc.camera
        /\ height = sc.height
        /\ positions \in PositionLists(sc.anchors)
        /\ heap = [bg_bgr |-> Image(sc.bg.h, sc.bg.w, "background"),
                   obj_bgr |-> Image(sc.obj.h, sc.obj.w, "object"),
                   obj_alpha |-> Image(sc.obj.h, sc.obj.w, "alpha"),
                   resized_bgr |-> None, resized_alpha |-> None,
                   result |-> None]
        /\ i = 0
        /\ pc = "for"
        /\ loc = NoLocals
        /\ rendered = None
        /\ files = <<>>
        /\ log = <<>>
        /\ error = None

Entry(outcome) == [i |-> i, loc |-> loc, outcome |-> outcome]

\* except ValueError in main: report the position and continue with the next.
Skip(outcome) ==
    /\ log' = Append(log, Entry(outcome))
    /\ i' = i + 1
    /\ pc' = "for"
    /\ loc' = NoLocals
    /\ UNCHANGED <<camera, height, positions, heap, rendered, files, error>>

\* Any other exception leaves paste_object and main.
Crash(e, l) ==
    /\ log' = Append(log, [i |-> i, loc |-> l, outcome |-> e])
    /\ error' = e
    /\ pc' = "crashed"
    /\ loc' = l
    /\ UNCHANGED <<camera, height, positions, heap, i, rendered, files>>

\* for i, (y_px, x_px) in enumerate(positions): enter paste_object or end.
ForNext ==
    /\ pc = "for"
    /\ IF i < Len(positions)
       THEN /\ loc' = [NoLocals EXCEPT !.y_px = positions[i + 1][1],
                                       !.x_px = positions[i + 1][2],
                                       !.bound = {"y_px", "x_px"}]
            /\ heap' = [heap EXCEPT !.resized_bgr = None, !.resized_alpha = None]
            /\ pc' = "solve"
       ELSE /\ pc' = "done"
            /\ UNCHANGED <<loc, heap>>
    /\ UNCHANGED <<camera, height, positions, i, rendered, files, log, error>>

\* target_h = compute_object_size_px(camera, bg_h, y_px, object_height_m)
Solve ==
    /\ pc = "solve"
    /\ LET r == compute_object_size_px(camera, heap.bg_bgr.h, loc.y_px, height)
       IN  IF r.raised # None
           THEN Crash(r.raised, loc)
           ELSE /\ loc' = [loc EXCEPT !.target_h = r.value,
                                  !.bound = @ \cup {"target_h"}]
                /\ pc' = "check_height"
                /\ UNCHANGED <<camera, height, positions, heap, i, rendered, files, log, error>>

\* if target_h <= 0: raise ValueError
CheckHeight ==
    /\ pc = "check_height"
    /\ IF loc.target_h <= 0
       THEN Skip("unplaceable")
       ELSE /\ pc' = "resize"
            /\ UNCHANGED <<camera, height, positions, heap, i, loc, rendered, files, log, error>>

\* target_w and the two cv2.resize calls
ResizeObject ==
    /\ pc = "resize"
    /\ LET target_w == TargetWidth(heap.obj_bgr.w, heap.obj_bgr.h, loc.target_h)
           l == [loc EXCEPT !.target_w = target_w, !.bound = @ \cup {"target_w"}]
       IN  IF ResizeFails(target_w, loc.target_h)
           THEN Crash("cv2.error", l)
           ELSE /\ loc' = l
                /\ heap' = [heap EXCEPT
                              !.resized_bgr = Resize(heap.obj_bgr, target_w, loc.target_h),
                              !.resized_alpha = Resize(heap.obj_alpha, target_w, loc.target_h)]
                /\ pc' = "bounds"
                /\ UNCHANGED <<camera, height, positions, i, rendered, files, log, error>>

\* destination rectangle and boundary check
CheckBounds ==
    /\ pc = "bounds"
    /\ LET top == Top(loc.y_px, loc.target_h)
           bottom == Bottom(loc.y_px)
           left == Left(loc.x_px, loc.target_w)
           right == Right(left, loc.target_w)
           l == [loc EXCEPT !.top = top, !.bottom = bottom, !.left = left, !.right = right,
                           !.bound = @ \cup {"top", "bottom", "left", "right"}]
       IN  IF OutOfBounds(top, bottom, left, right, heap.bg_bgr.h, heap.bg_bgr.w)
           THEN /\ log' = Append(log, [i |-> i, loc |-> l, outcome |-> "out_of_bounds"])
                /\ i' = i + 1
                /\ pc' = "for"
                /\ loc' = NoLocals
                /\ UNCHANGED <<camera, height, positions, heap, rendered, files, error>>
           ELSE /\ loc' = l
                /\ pc' = "copy"
                /\ UNCHANGED <<camera, height, positions, heap, i, rendered, files, log, error>>

\* Mutant: result names the background itself instead of a copy.
Copy_InPlace ==
    /\ pc = "copy"
    /\ loc' = [loc EXCEPT !.result = "bg_bgr", !.bound = @ \cup {"result"}]
    /\ pc' = "blend"
    /\ UNCHANGED <<camera, height, positions, heap, i, rendered, files, log, error>>

\* result = background.copy()
Copy ==
    /\ pc = "copy"
    /\ heap' = [heap EXCEPT !.result = heap.bg_bgr]
    /\ loc' = [loc EXCEPT !.result = "result", !.bound = @ \cup {"result"}]
    /\ pc' = "blend"
    /\ UNCHANGED <<camera, height, positions, i, rendered, files, log, error>>

\* blend into result[top:bottom, left:right]; return result
Blend ==
    /\ pc = "blend"
    /\ heap' = [heap EXCEPT ![loc.result] =
                   WriteRect(heap[loc.result], loc.top, loc.bottom, loc.left, loc.right,
                             heap.resized_bgr, heap.resized_alpha)]
    /\ rendered' = loc.result
    /\ pc' = "write"
    /\ UNCHANGED <<camera, height, positions, i, loc, files, log, error>>

\* cv2.imwrite(render_i.png, cv2.cvtColor(rendered, cv2.COLOR_BGR2RGB))
Write ==
    /\ pc = "write"
    /\ files' = (i :> CvtColor(heap[rendered])) @@ files
    /\ log' = Append(log, Entry("composed"))
    /\ i' = i + 1
    /\ pc' = "for"
    /\ loc' = NoLocals
    /\ UNCHANGED <<camera, height, positions, heap, rendered, error>>

Next ==
    \/ ForNext
    \/ Solve
    \/ CheckHeight
    \/ ResizeObject
    \/ CheckBounds
    \/ Copy
    \/ Blend
    \/ Write

Spec == Init /\ [][Next]_vars

(***************************************************************************)
(* Properties.  A log entry records one finished call of paste_object:     *)
(* its index, its locals when it ended and how it ended.                   *)
(***************************************************************************)
Entries == {log[k] : k \in 1..Len(log)}

bg_h == heap.bg_bgr.h
bg_w == heap.bg_bgr.w
orig_h == heap.obj_bgr.h
orig_w == heap.obj_bgr.w

\* Round to nearest (halves up) of the non-negative quotient n / d.
RoundNearest(n, d) == (2 * n + d) \div (2 * d)

IsMainScene ==
    /\ camera = CameraParams(15, 36, 24, 1600, 2000)
    /\ height = <<2, 5>>
    /\ bg_h = 3000 /\ bg_w = 4000
    /\ orig_h = 400 /\ orig_w = 200

AtReferenceAnchor(e) == IsMainScene /\ e.loc.y_px = 1300 /\ e.loc.x_px = 1300

\* C1 as stated: in the reference scenario (main's camera, background 4000 wide
\* by 3000 high, anchor (1300, 1300), height 0.4 m, object 200 wide by 400
\* high) the solver returns a positive height h and paste_object succeeds with
\* scaled width round(h * 200 / 400).
C1_ReferenceSucceeds ==
    \A e \in Entries :
        AtReferenceAnchor(e) =>
            /\ "target_h" \in e.loc.bound /\ e.loc.target_h > 0
            /\ e.outcome = "composed"
            /\ e.loc.target_w = RoundNearest(e.loc.target_h * 200, 400)

\* C1 amended: in the reference scenario row 1300 lies above the horizon row
\* 1500, so the solver returns 0 and paste_object fails with the unplaceable
\* ValueError before any width is computed.
C1_ReferenceUnplaceable ==
    \A e \in Entries :
        AtReferenceAnchor(e) =>
            /\ "target_h" \in e.loc.bound /\ e.loc.target_h = 0
            /\ e.outcome = "unplaceable"
            /\ "target_w" \notin e.loc.bound

C1_Witness == \E e \in Entries : AtReferenceAnchor(e) /\ e.outcome = "unplaceable"

PositiveCamera ==
    /\ camera.focal_length_mm > 0
    /\ camera.sensor_height_mm > 0
    /\ camera.camera_height_mm > 0

InRange(e) == PositiveCamera /\ bg_h > 0 /\ e.loc.y_px \in 0..bg_h /\ height[1] > 0

\* C2: for a positive camera, positive bg_height_px, y_px in [0, bg_height_px]
\* and a positive object height the solver never raises and returns an
\* integer; on the horizon row (2 * y_px = bg_height_px) it returns 0.
C2_SolverNeverThrows ==
    \A e \in Entries :
        InRange(e) =>
            /\ e.outcome # "ZeroDivisionError"
            /\ "target_h" \in e.loc.bound /\ e.loc.target_h \in Int
            /\ (2 * e.loc.y_px = bg_h => e.loc.target_h = 0)

Failed(e) == e.outcome # "composed"

\* C3: paste_object never changes a pixel of the caller's background (nor of
\* the object arrays); the array it writes is a copy made only after the
\* height check and the bounds check have passed, and a failed call has made
\* no copy.
C3_BackgroundNotMutated ==
    /\ heap.bg_bgr = Image(bg_h, bg_w, "background")
    /\ heap.obj_bgr = Image(orig_h, orig_w, "object")
    /\ heap.obj_alpha = Image(orig_h, orig_w, "alpha")
    /\ loc.result # None =>
          /\ loc.result # "bg_bgr"
          /\ "target_h" \in loc.bound /\ loc.target_h > 0
          /\ {"top", "bottom", "left", "right"} \subseteq loc.bound
          /\ ~(loc.top < 0 \/ loc.bottom > bg_h \/ loc.left < 0 \/ loc.right > bg_w)
    /\ \A e \in Entries : Failed(e) => e.loc.result = None

C3_Witness ==
    /\ \E e \in Entries : e.outcome = "composed"
    /\ \E e \in Entries : e.outcome \in {"out_of_bounds", "unplaceable"}

\* C4: an anchor strictly above the horizon row (2 * y_px < bg_height_px), at
\* any x_px, makes the solver return exactly 0 and paste_object fail with the
\* unplaceable ValueError before any resize or bounds check.
C4_AboveHorizonUnplaceable ==
    \A e \in Entries :
        (e.loc.y_px >= 0 /\ 2 * e.loc.y_px < bg_h) =>
            /\ "target_h" \in e.loc.bound /\ e.loc.target_h = 0
            /\ e.outcome = "unplaceable"
            /\ e.loc.bound \cap {"target_w", "top", "bottom", "left", "right", "result"} = {}

C4_Witness ==
    /\ \E e \in Entries : e.loc.y_px = 0 /\ e.loc.x_px = 0 /\ e.outcome = "unplaceable"
    /\ \E e \in Entries :
          e.loc.y_px > 0 /\ 2 * e.loc.y_px < bg_h /\ e.outcome = "unplaceable"

\* C5: when paste_object returns an image, the rectangle top = y_px - target_h,
\* bottom = y_px, left = x_px - floor(target_w / 2), right = left + target_w
\* lies inside the background with top < bottom and left <= right, the image
\* has the background's dimensions, and it equals the background at every
\* pixel outside that rectangle.
C5_WritesOnlyRectangle ==
    pc = "write" =>
        LET out == heap[rendered]
            top == loc.y_px - loc.target_h
            bottom == loc.y_px
            left == loc.x_px - (loc.target_w \div 2)
            right == left + loc.target_w
        IN  /\ 0 <= top /\ top < bottom /\ bottom <= bg_h
            /\ 0 <= left /\ left <= right /\ right <= bg_w
            /\ out.h = bg_h /\ out.w = bg_w
            /\ out.base = heap.bg_bgr.base /\ out.swap = heap.bg_bgr.swap
            /\ \A p \in (DOMAIN out.over) \cup (DOMAIN heap.bg_bgr.over) :
                  p \notin Coords(top, bottom, left, right) =>
                      Pixel(out, p[1], p[2]) = Pixel(heap.bg_bgr, p[1], p[2])

C5_Witness ==
    /\ pc = "write"
    /\ loc.target_w > 1 /\ loc.target_w % 2 = 1
    /\ \E p \in DOMAIN heap[rendered].over :
          Pixel(heap[rendered], p[1], p[2]) # Pixel(heap.bg_bgr, p[1], p[2])

Finished == pc \in {"done", "crashed"}

\* C6: the rendering loop attempts every position in order; a failing
\* position is skipped and the positions after it are still attempted, and
\* render_i is written exactly when position i is placed.
C6_BatchContinues ==
    Finished =>
        /\ Len(log) = Len(positions)
        /\ \A k \in 1..Len(positions) :
              /\ log[k].i = k - 1
              /\ log[k].loc.y_px = positions[k][1]
              /\ log[k].loc.x_px = positions[k][2]
              /\ ((k - 1) \in DOMAIN files <=> log[k].outcome = "composed")

\* C7: once the solver has returned target_h > 0, a well-formed call either
\* returns a composed image or fails with the out-of-bounds ValueError.
C7_TypedFailuresOnly ==
    \A e \in Entries :
        ("target_h" \in e.loc.bound /\ e.loc.target_h > 0 /\ orig_w > 0 /\ orig_h > 0) =>
            e.outcome \in {"composed", "out_of_bounds"}

SolverReturned(e) == "target_h" \in e.loc.bound

\* C8: for a fixed positive camera and object height the solver's result is
\* non-decreasing in y_px over the rows of [0, bg_height_px] where it returns,
\* and never negative there.
C8_Monotone ==
    \A e1, e2 \in Entries :
        (InRange(e1) /\ InRange(e2) /\ SolverReturned(e1) /\ SolverReturned(e2)) =>
            /\ e1.loc.target_h >= 0
            /\ (e1.loc.y_px <= e2.loc.y_px => e1.loc.target_h <= e2.loc.target_h)

C8_Witness ==
    \E e1, e2 \in Entries :
        /\ e1.loc.y_px < e2.loc.y_px
        /\ SolverReturned(e1) /\ SolverReturned(e2)
        /\ 0 < e1.loc.target_h /\ e1.loc.target_h < e2.loc.target_h

WidthComputed(e) == "target_w" \in e.loc.bound

\* C9 as stated: the scaled width is round(target_h * orig_w / orig_h).
C9_WidthRounded ==
    \A e \in Entries :
        WidthComputed(e) =>
            e.loc.target_w = RoundNearest(e.loc.target_h * orig_w, orig_h)

\* C9 amended: the scaled width used for the resize and for the destination
\* rectangle is floor(target_h * orig_w / orig_h) (truncation).
C9_WidthTruncated ==
    /\ \A e \in Entries :
          WidthComputed(e) =>
              /\ e.loc.target_w = (e.loc.target_h * orig_w) \div orig_h
              /\ "right" \in e.loc.bound => e.loc.right - e.loc.left = e.loc.target_w
    /\ pc \in {"bounds", "copy", "blend", "write"} =>
          /\ heap.resized_bgr.w = (loc.target_h * orig_w) \div orig_h
          /\ heap.resized_alpha.w = (loc.target_h * orig_w) \div orig_h

C9_Witness ==
    \E e \in Entries :
        /\ e.outcome = "composed"
        /\ e.loc.target_w # RoundNearest(e.loc.target_h * orig_w, orig_h)

GroundDistances == {0, 1000, 2000, 5000}

WithGroundDistance(cam, gd) == [cam EXCEPT !.ground_distance_mm = gd]

SolverRows == (0..SmallH) \cup {1300, 1500, 1800}

\* C10: ground_distance_mm is effective: for some camera, background height,
\* row and object height, two cameras differing only in ground_distance_mm
\* yield different pixel heights.
C10_GroundDistanceEffective ==
    \E cam \in Cameras \cup {camera}, g1, g2 \in GroundDistances,
       bh \in {SmallH, 3000, bg_h}, y \in SolverRows,
       H \in SmallHeights \cup {<<2, 5>>, height} :
        LET r1 == compute_object_size_px(WithGroundDistance(cam, g1), bh, y, H)
            r2 == compute_object_size_px(WithGroundDistance(cam, g2), bh, y, H)
        IN  /\ y <= bh /\ 2 * y > bh
            /\ r1.raised = None /\ r2.raised = None
            /\ r1.value # r2.value

====
